---------------------------- MODULE Spec2Model ----------------------------
(***************************************************************************)
(* Bank FD rates scraper (src/app.py): the two table extractors            *)
(* (extract_table_from_html, extract_hdfc_table), the Flask handlers       *)
(* (fetch_bank_data, fetch_multiple_banks, get_status, export_to_excel,    *)
(* clear_data) and the process-wide cache fetched_data.                    *)
(*                                                                         *)
(* Markup is modelled as far as the code reads it: a document is the       *)
(* sequence of its <table> elements, a table the sequence of its <tr>      *)
(* rows, a row the sequence of its cells, a cell a tag (th or td) and its  *)
(* text.  Tables are not nested.                                           *)
(***************************************************************************)
EXTENDS Integers, Sequences, FiniteSets, TLC

\* ------------------------------------------------------------------ bounds
MaxRows == 3        \* rows of a table handed to the parsers (SpecParse)
MaxCells == 2       \* cells of one row (SpecParse)
MaxTables == 2      \* tables of a served document (Spec, SpecConc)
MaxCalls == 3       \* requests served in one behaviour of Spec
MaxBatch == 2       \* identifiers in one fetch-multiple request

\* ----------------------------------------------------------- small helpers
Range(s) == {s[i] : i \in 1..Len(s)}

RECURSIVE SeqFilter(_, _)
\* [x for x in s if keep[x]], keep a function of the elements of s
SeqFilter(s, keep) ==
    IF s = <<>> THEN <<>>
    ELSE (IF keep[Head(s)] THEN <<Head(s)>> ELSE <<>>) \o SeqFilter(Tail(s), keep)

RECURSIVE Flatten(_)
\* the concatenation of a sequence of sequences
Flatten(ss) == IF ss = <<>> THEN <<>> ELSE Head(ss) \o Flatten(Tail(ss))

SeqsUpTo(S, n) == UNION {[1..k -> S] : k \in 0..n}

\* ------------------------------------------------------------- cell text
NaN == "<NaN>"      \* pandas' missing value; no cell text equals it

IsSpace(ch) == ch \in {" ", "\n", "\t"}

RECURSIVE LStrip(_)
LStrip(s) ==
    IF Len(s) = 0 THEN s
    ELSE IF IsSpace(SubSeq(s, 1, 1)) THEN LStrip(SubSeq(s, 2, Len(s))) ELSE s

RECURSIVE RStrip(_)
RStrip(s) ==
    IF Len(s) = 0 THEN s
    ELSE IF IsSpace(SubSeq(s, Len(s), Len(s))) THEN RStrip(SubSeq(s, 1, Len(s) - 1)) ELSE s

\* str.strip()
Strip(s) == RStrip(LStrip(s))

RECURSIVE ReplaceNewlines(_)
\* str.replace('\n', ' ')
ReplaceNewlines(s) ==
    IF Len(s) = 0 THEN s
    ELSE (IF SubSeq(s, 1, 1) = "\n" THEN " " ELSE SubSeq(s, 1, 1))
         \o ReplaceNewlines(SubSeq(s, 2, Len(s)))

\* cell.get_text(strip=True) of a cell holding one text node
GetText(cell) == Strip(cell.text)

\* ------------------------------------------------------------ data frames
\* A DataFrame is its column labels and its rows (the index is not kept: the
\* code resets it and to_dict('records') never reads it); None is NoneDf.
NoneDf == [none |-> TRUE, columns |-> <<>>, rows |-> <<>>]

DataFrame(rows, columns) == [none |-> FALSE, columns |-> columns, rows |-> rows]

\* a row that dropna(how='all') drops: no value of it is present
AllNaN(row) == \A i \in 1..Len(row) : row[i] = NaN

\* df.dropna(how='all') followed by df.reset_index(drop=True)
DropNaAll(df) ==
    [df EXCEPT !.rows = SeqFilter(df.rows, [r \in Range(df.rows) |-> ~AllNaN(r)])]

\* df.empty: no rows or no columns
DfEmpty(df) == Len(df.rows) = 0 \/ Len(df.columns) = 0

\* the position whose value a dict built by zip(columns, row) keeps for label l
LastIndexOf(columns, l) ==
    CHOOSE i \in 1..Len(columns) :
        columns[i] = l /\ \A j \in (i + 1)..Len(columns) : columns[j] # l

\* df.to_dict('records'): one dict per row, a repeated label keeping its last value
ToDictRecords(df) ==
    [k \in 1..Len(df.rows) |->
        [l \in Range(df.columns) |-> df.rows[k][LastIndexOf(df.columns, l)]]]

\* ------------------------------------------------- extract_hdfc_table
\* [th.get_text(strip=True) for th in table.find_all('th')]
HdfcHeaders(table) ==
    Flatten([r \in 1..Len(table) |->
        LET ths == SeqFilter(table[r], [c \in Range(table[r]) |-> c.tag = "th"])
        IN  [i \in 1..Len(ths) |-> GetText(ths[i])]])

\* table.find_all('tr')[1:]
HdfcBodyRows(table) == IF table = <<>> THEN <<>> ELSE Tail(table)

\* [cell.get_text(strip=True).replace('\n', ' ') for cell in tr.find_all('td')]
HdfcRowCells(tr) ==
    LET tds == SeqFilter(tr, [c \in Range(tr) |-> c.tag = "td"])
    IN  [i \in 1..Len(tds) |-> ReplaceNewlines(GetText(tds[i]))]

\* "Ensure consistent column count"
HdfcReconcile(row, num_columns) ==
    IF Len(row) < num_columns
        THEN row \o [i \in 1..(num_columns - Len(row)) |-> ""]
    ELSE IF Len(row) > num_columns
        THEN SubSeq(row, 1, num_columns)
    ELSE row

\* the rows list built by the loop
HdfcRows(table) ==
    LET body == HdfcBodyRows(table)
        num_columns == Len(HdfcHeaders(table))
    IN  [k \in 1..Len(body) |-> HdfcReconcile(HdfcRowCells(body[k]), num_columns)]

\* the frame returned for the selected table
HdfcFrame(table) == DropNaAll(DataFrame(HdfcRows(table), HdfcHeaders(table)))


\* -------------------------------------------- pd.read_html, one table
\* pandas' default na_values (keep_default_na=True): texts read as missing
STR_NA_VALUES ==
    {"", "#N/A", "#N/A N/A", "#NA", "-1.#IND", "-1.#QNAN", "-NaN", "-nan",
     "1.#IND", "1.#QNAN", "<NA>", "N/A", "NA", "NULL", "NaN", "None", "n/a",
     "nan", "null"}

\* the text pandas keeps of a cell (td or th): whitespace removed at both ends
PandasText(cell) == ReplaceNewlines(Strip(cell.text))

\* read_html finds the tables holding a text node (match='.+')
HasText(table) == \E r \in 1..Len(table) : \E i \in 1..Len(table[r]) : table[r][i].text # ""

RowIsAllTh(tr) == \A i \in 1..Len(tr) : tr[i].tag = "th"

RECURSIVE LeadingThRows(_)
\* without <thead>, the leading rows made of th cells only are the header rows
LeadingThRows(table) ==
    IF table = <<>> \/ ~RowIsAllTh(Head(table)) THEN 0
    ELSE 1 + LeadingThRows(Tail(table))

Max(a, b) == IF a >= b THEN a ELSE b

RECURSIVE MaxWidth(_)
MaxWidth(table) == IF table = <<>> THEN 0 ELSE Max(Len(Head(table)), MaxWidth(Tail(table)))

\* _expand_elements: every row padded on the right with '' to the widest row
PandasMatrix(table) ==
    LET w == MaxWidth(table)
    IN  [r \in 1..Len(table) |->
            [i \in 1..w |-> IF i <= Len(table[r]) THEN PandasText(table[r][i]) ELSE ""]]

\* the labels of a one-row header: blank ones named, repeated ones numbered
PandasLabels(hrow) ==
    LET named == [i \in 1..Len(hrow) |->
                    IF hrow[i] = "" THEN "Unnamed: " \o ToString(i - 1) ELSE hrow[i]]
        seen(i) == Cardinality({j \in 1..(i - 1) : named[j] = named[i]})
    IN  [i \in 1..Len(hrow) |->
            IF seen(i) = 0 THEN named[i] ELSE named[i] \o "." \o ToString(seen(i))]

\* the tables this model of read_html covers: at most two header rows, and a
\* two-row header with no blank label
GenericCovers(table) ==
    /\ HasText(table)
    /\ LeadingThRows(table) <= 2
    /\ LeadingThRows(table) = 2 =>
          \A r \in 1..2 : /\ Len(table[r]) = MaxWidth(table)
                          /\ \A i \in 1..Len(table[r]) : PandasText(table[r][i]) # ""

\* the frame read_html builds of one table, then lines 76-77: a MultiIndex
\* (two header rows) is flattened to ' '.join(col).strip()
GenericRawFrame(table) ==
    LET m == PandasMatrix(table)
        h == LeadingThRows(table)
        w == MaxWidth(table)
        columns ==
            IF h = 0 THEN [i \in 1..w |-> ToString(i - 1)]
            ELSE IF h = 1 THEN PandasLabels(m[1])
            ELSE [i \in 1..w |-> Strip(m[1][i] \o " " \o m[2][i])]
        body == SubSeq(m, h + 1, Len(m))
        rows == [k \in 1..Len(body) |->
                    [i \in 1..w |-> IF body[k][i] \in STR_NA_VALUES THEN NaN ELSE body[k][i]]]
    IN  DataFrame(rows, columns)

\* lines 73-83: the selected frame with its empty rows dropped
GenericFrame(table) == DropNaAll(GenericRawFrame(table))

\* ------------------------------------------------------------------ state
VARIABLES
    input,          \* SpecParse: the table handed to a parser
    parsed,         \* SpecParse: which parser ran, and the frame it returned
    fetched_data,   \* the global cache: identifier -> [data, timestamp]
    now,            \* the clock datetime.now() reads
    th,             \* per request thread: the handler's position and locals
    calls           \* requests started so far

vars == <<input, parsed, fetched_data, now, th, calls>>

\* ------------------------------------------------------------ parser inputs
ThLabels == {"A", "B"}
TdTexts == {"", " ", "x", "N/A"}
Cells == [tag : {"th"}, text : ThLabels] \cup [tag : {"td"}, text : TdTexts]
Rows == SeqsUpTo(Cells, MaxCells)
Tables == SeqsUpTo(Rows, MaxRows)

NotParsed == [by |-> "none", df |-> NoneDf, records |-> <<>>]

\* extract_hdfc_table's parse of the selected table, then to_dict('records')
ParseStructural ==
    /\ parsed.by = "none"
    /\ parsed' = [by |-> "hdfc", df |-> HdfcFrame(input),
                  records |-> ToDictRecords(HdfcFrame(input))]
    /\ UNCHANGED <<input, fetched_data, now, th, calls>>

\* extract_table_from_html's parse of the selected table, then to_dict('records')
ParseGeneric ==
    /\ parsed.by = "none"
    /\ GenericCovers(input)
    /\ parsed' = [by |-> "generic", df |-> GenericFrame(input),
                  records |-> ToDictRecords(GenericFrame(input))]
    /\ UNCHANGED <<input, fetched_data, now, th, calls>>


\* --------------------------------------------------------- idle machinery
Threads == {1, 2}

Idle == [pc |-> "idle"]

NoThreads == [t \in Threads |-> Idle]

EmptyCache == [b \in {} |-> 0]

\* ------------------------------------------------------------- SpecParse
\* the parsers as pure functions: any table within the bounds, parsed once
InitParse ==
    /\ input \in Tables
    /\ parsed = NotParsed
    /\ fetched_data = EmptyCache
    /\ now = 1
    /\ th = NoThreads
    /\ calls = 0

NextParse == ParseStructural \/ ParseGeneric

SpecParse == InitParse /\ [][NextParse]_vars


\* ------------------------------------------------------------ BANK_CONFIG
BANK_CONFIG ==
    [NSB  |-> [url |-> "https://www.nsb.lk/rates-tarriffs/rupee-deposit-rates/",
               table_index |-> 1, special |-> FALSE],
     RDB  |-> [url |-> "https://www.rdb.lk/interest-rates/",
               table_index |-> 2, special |-> FALSE],
     SDB  |-> [url |-> "https://www.sdb.lk/en/rates?tableid=5",
               table_index |-> 1, special |-> FALSE],
     SMIB |-> [url |-> "https://www.smib.lk/en/normal-fd-rates",
               table_index |-> 0, special |-> FALSE],
     HDFC |-> [url |-> "https://www.hdfc.lk/rates-%26-tarfiffs",
               table_index |-> 1, special |-> TRUE]]

Registered == DOMAIN BANK_CONFIG

\* line 178: the structural extractor is used for HDFC alone
UsesHdfcExtractor(bank) == BANK_CONFIG[bank].special /\ bank = "HDFC"

\* ------------------------------------------------------ what the sites serve
Th(x) == [tag |-> "th", text |-> x]
Td(x) == [tag |-> "td", text |-> x]

HeaderAB == <<Th("A"), Th("B")>>
TGood == <<HeaderAB, <<Td("x"), Td("y")>>>>
TGap == <<HeaderAB, <<Td(""), Td(" ")>>, <<Td(" x"), Td("y")>>>>
THeaderOnly == <<HeaderAB>>

DocTables == {TGood, TGap, THeaderOnly}

\* a served document: up to MaxTables tables
Docs == {[i \in 1..n |-> t] : n \in 0..MaxTables, t \in DocTables}

\* what one HTTP exchange gives the code: an exception (connection error,
\* timeout; for urlopen also an HTTP error status), or a body.  requests.get
\* returns the body whatever the status, and the code never reads the status.
NetFail == [served |-> FALSE, tables |-> <<>>]
Served(d) == [served |-> TRUE, tables |-> d]
NetOutcomes == {NetFail} \cup {Served(d) : d \in Docs}

\* identifiers a client sends: registry entries, and one that is not
RequestIds == {"NSB", "HDFC", "XYZ"}
\* a batch: an ordered set of identifiers
Batches == {bs \in SeqsUpTo(RequestIds, MaxBatch) :
               \A i, j \in 1..Len(bs) : i # j => bs[i] # bs[j]}

\* ------------------------------------------------------------- responses
EmptyMap == [b \in {} |-> 0]
NoResp == [code |-> 0]

\* lines 168-172, a (response, 404) tuple
UnknownBankResp(bank) ==
    [code |-> 404, tuple |-> TRUE, bank |-> bank, status |-> "error",
     message |-> "Bank not found", count |-> 0, data |-> <<>>]

\* lines 193-198
SuccessResp(bank, data) ==
    [code |-> 200, tuple |-> FALSE, bank |-> bank, status |-> "success",
     message |-> "Successfully fetched", count |-> Len(data), data |-> data]

\* lines 200-204
NoDataResp(bank) ==
    [code |-> 200, tuple |-> FALSE, bank |-> bank, status |-> "error",
     message |-> "No data found or table extraction failed", count |-> 0, data |-> <<>>]

\* an exception leaving a view function: Flask answers 500
ServerErrorResp == [code |-> 500, tuple |-> FALSE, status |-> "error"]

\* result.get_json(): the body without the transport's status code
JsonBody(resp) ==
    [bank |-> resp.bank, status |-> resp.status, message |-> resp.message,
     count |-> resp.count, data |-> resp.data]

\* -------------------------------------------------------- a request's frame
\* an entry of a call's trace: the stage, and how it went: "ok", "raised" (an
\* exception) or "none" (it gave an error value without raising)
Stage(name, res) == [stage |-> name, res |-> res]

NewFrame(kind, banks) ==
    [pc |-> "idle", kind |-> kind, banks |-> banks, idx |-> 1,
     results |-> EmptyMap, facts |-> EmptyMap,
     bank |-> "", attempt |-> 0, net |-> NetFail, df |-> NoneDf,
     trace |-> <<>>, resp |-> NoResp]

\* entering fetch_bank_data(bank): its locals are fresh
Enter(f, bank) ==
    [f EXCEPT !.pc = "lookup", !.bank = bank, !.attempt = 0, !.net = NetFail,
              !.df = NoneDf, !.trace = <<>>, !.resp = NoResp]

Push(f, name, res) == [f EXCEPT !.trace = Append(f.trace, Stage(name, res))]

Set(t, f) == th' = [th EXCEPT ![t] = f]

Extend(m, k, v) == [x \in DOMAIN m \cup {k} |-> IF x = k THEN v ELSE m[x]]

AllIdle == \A t \in Threads : th[t].pc = "idle"

\* a table with a header cell and, after its first row, a td cell with text
TableHasData(tb) ==
    /\ \E r \in 1..Len(tb) : \E i \in 1..Len(tb[r]) : tb[r][i].tag = "th"
    /\ \E r \in 2..Len(tb) : \E i \in 1..Len(tb[r]) :
          tb[r][i].tag = "td" /\ Strip(tb[r][i].text) \notin STR_NA_VALUES

\* What happened to an extraction, read off the exchange and the markup (not
\* off the extractors): the last download failed, the document has no table at
\* the configured position, that table holds no data, or it holds data.
Cause(bank, net) ==
    IF bank \notin Registered THEN "unknown_source"
    ELSE IF ~net.served THEN "fetch_failed"
    ELSE IF BANK_CONFIG[bank].table_index >= Len(net.tables) THEN "out_of_range"
    ELSE IF ~TableHasData(net.tables[BANK_CONFIG[bank].table_index + 1]) THEN "no_data"
    ELSE "has_data"

\* --------------------------------------------------------- fetch_bank_data
\* GET /api/fetch/<bank_name>
StartFetch(t, bank) ==
    /\ th[t].pc = "idle"
    /\ calls < MaxCalls
    /\ calls' = calls + 1
    /\ Set(t, Enter(NewFrame("fetch", <<bank>>), bank))
    /\ UNCHANGED <<input, parsed, fetched_data, now>>

\* lines 167-174
Lookup(t) ==
    /\ th[t].pc = "lookup"
    /\ LET f == th[t]
       IN  IF f.bank \notin Registered
             THEN Set(t, [Push(Push(f, "LOOKUP", "none"), "FAILED", "none")
                            EXCEPT !.pc = "return", !.resp = UnknownBankResp(f.bank)])
           ELSE IF UsesHdfcExtractor(f.bank)
             THEN Set(t, [Push(f, "LOOKUP", "ok") EXCEPT !.pc = "h_fetch"])
           ELSE Set(t, [Push(f, "LOOKUP", "ok") EXCEPT !.pc = "g_fetch1"])
    /\ UNCHANGED <<input, parsed, fetched_data, now, calls>>

\* ------------------------------------------------ extract_table_from_html
\* pd.read_html(doc): a frame per table found; none found raises ValueError
ReadHtml(doc) ==
    LET found == SeqFilter(doc, [tb \in Range(doc) |-> HasText(tb)])
    IN  [i \in 1..Len(found) |-> GenericRawFrame(found[i])]

\* line 64, pd.read_html(url): the download
GFetchDirect(t) ==
    /\ th[t].pc = "g_fetch1"
    /\ \E net \in NetOutcomes :
        LET f == [th[t] EXCEPT !.attempt = 1, !.net = net]
        IN  IF net.served
              THEN Set(t, [Push(f, "FETCH", "ok") EXCEPT !.pc = "g_parse"])
            ELSE Set(t, [Push(f, "FETCH", "raised") EXCEPT !.pc = "g_fetch2"])
    /\ UNCHANGED <<input, parsed, fetched_data, now, calls>>

\* a fallback that is tried again when it fails
GFetchFallbackRetries(t) ==
    /\ th[t].pc = "g_fetch2"
    /\ \E net \in NetOutcomes :
        LET f == [th[t] EXCEPT !.attempt = 2, !.net = net]
        IN  IF net.served
              THEN Set(t, [Push(f, "FETCH", "ok") EXCEPT !.pc = "g_parse"])
            ELSE Set(t, [Push(f, "FETCH", "raised") EXCEPT !.pc = "g_fetch2"])
    /\ UNCHANGED <<input, parsed, fetched_data, now, calls>>

\* lines 65-67, the bare except: requests.get(url, headers=headers, timeout=10)
GFetchFallback(t) ==
    /\ th[t].pc = "g_fetch2"
    /\ \E net \in NetOutcomes :
        LET f == [th[t] EXCEPT !.attempt = 2, !.net = net]
        IN  IF net.served
              THEN Set(t, [Push(f, "FETCH", "ok") EXCEPT !.pc = "g_parse"])
            ELSE Set(t, [Push(f, "FETCH", "raised") EXCEPT !.pc = "check", !.df = NoneDf])
    /\ UNCHANGED <<input, parsed, fetched_data, now, calls>>

\* the parse inside read_html (lines 64 and 68) and the selection, lines 72-86
GParse(t) ==
    /\ th[t].pc = "g_parse"
    /\ LET f == th[t]
           tables == ReadHtml(f.net.tables)
           table_index == BANK_CONFIG[f.bank].table_index
       IN  IF Len(tables) = 0
             THEN IF f.attempt = 1
                    THEN Set(t, [Push(f, "PARSE", "raised") EXCEPT !.pc = "g_fetch2"])
                  ELSE Set(t, [Push(f, "PARSE", "raised") EXCEPT !.pc = "check", !.df = NoneDf])
           ELSE IF Len(tables) > table_index
             THEN Set(t, [Push(f, "PARSE", "ok")
                            EXCEPT !.pc = "g_norm", !.df = tables[table_index + 1]])
           ELSE Set(t, [Push(f, "PARSE", "none") EXCEPT !.pc = "check", !.df = NoneDf])
    /\ UNCHANGED <<input, parsed, fetched_data, now, calls>>

\* lines 79-83
GNormalize(t) ==
    /\ th[t].pc = "g_norm"
    /\ Set(t, [Push(th[t], "NORMALIZE", "ok")
                 EXCEPT !.pc = "check", !.df = DropNaAll(th[t].df)])
    /\ UNCHANGED <<input, parsed, fetched_data, now, calls>>

\* ------------------------------------------------------ extract_hdfc_table
\* line 100
HFetch(t) ==
    /\ th[t].pc = "h_fetch"
    /\ \E net \in NetOutcomes :
        LET f == [th[t] EXCEPT !.attempt = 1, !.net = net]
        IN  IF net.served
              THEN Set(t, [Push(f, "FETCH", "ok") EXCEPT !.pc = "h_parse"])
            ELSE Set(t, [Push(f, "FETCH", "raised") EXCEPT !.pc = "check", !.df = NoneDf])
    /\ UNCHANGED <<input, parsed, fetched_data, now, calls>>

\* lines 101-129: soup.find_all('table'), the range check, headers and rows
HParse(t) ==
    /\ th[t].pc = "h_parse"
    /\ LET f == th[t]
           tables == f.net.tables
           table_index == BANK_CONFIG[f.bank].table_index
       IN  IF table_index >= Len(tables)
             THEN Set(t, [Push(f, "PARSE", "none") EXCEPT !.pc = "check", !.df = NoneDf])
           ELSE Set(t, [Push(f, "PARSE", "ok")
                          EXCEPT !.pc = "h_norm",
                                 !.df = DataFrame(HdfcRows(tables[table_index + 1]),
                                                  HdfcHeaders(tables[table_index + 1]))])
    /\ UNCHANGED <<input, parsed, fetched_data, now, calls>>

\* lines 130-133
HNormalize(t) ==
    /\ th[t].pc = "h_norm"
    /\ Set(t, [Push(th[t], "NORMALIZE", "ok")
                 EXCEPT !.pc = "check", !.df = DropNaAll(th[t].df)])
    /\ UNCHANGED <<input, parsed, fetched_data, now, calls>>

\* ------------------------------------------- fetch_bank_data, lines 183-204
\* line 183
HasData(df) == ~df.none /\ ~DfEmpty(df)

\* line 183 without its "not df.empty": an empty frame is stored too
CheckStoresEmpty(t) ==
    /\ th[t].pc = "check"
    /\ LET f == th[t]
           data == ToDictRecords(f.df)
       IN  IF ~f.df.none
             THEN /\ fetched_data' =
                        Extend(fetched_data, f.bank, [data |-> data, timestamp |-> now])
                  /\ now' = now + 1
                  /\ Set(t, [Push(f, "DONE", "ok")
                               EXCEPT !.pc = "return", !.resp = SuccessResp(f.bank, data)])
           ELSE /\ UNCHANGED <<fetched_data, now>>
                /\ Set(t, [Push(f, "FAILED", "none")
                             EXCEPT !.pc = "return", !.resp = NoDataResp(f.bank)])
    /\ UNCHANGED <<input, parsed, calls>>

\* Nothing in the try block of lines 176-204 raises on the frames the two
\* extractors return (both catch every Exception themselves), so the handler
\* of lines 206-211 has no step here.
Check(t) ==
    /\ th[t].pc = "check"
    /\ LET f == th[t]
           data == ToDictRecords(f.df)
       IN  IF HasData(f.df)
             THEN /\ fetched_data' =
                        Extend(fetched_data, f.bank, [data |-> data, timestamp |-> now])
                  /\ now' = now + 1
                  /\ Set(t, [Push(f, "DONE", "ok")
                               EXCEPT !.pc = "return", !.resp = SuccessResp(f.bank, data)])
           ELSE /\ UNCHANGED <<fetched_data, now>>
                /\ Set(t, [Push(f, "FAILED", "none")
                             EXCEPT !.pc = "return", !.resp = NoDataResp(f.bank)])
    /\ UNCHANGED <<input, parsed, calls>>

\* a loop that gives up on the batch when one bank's result is an error
ReturnAbortsBatch(t) ==
    /\ th[t].pc = "return"
    /\ LET f == [th[t] EXCEPT
                    !.facts = Extend(th[t].facts, th[t].bank, Cause(th[t].bank, th[t].net))]
       IN  IF f.kind = "fetch"
             THEN Set(t, [f EXCEPT !.pc = "done"])
           ELSE IF f.resp.tuple \/ f.resp.status = "error"
             THEN Set(t, [f EXCEPT !.pc = "done", !.resp = ServerErrorResp])
           ELSE Set(t, [f EXCEPT !.pc = "loop", !.idx = f.idx + 1,
                                 !.results = Extend(f.results, f.bank, JsonBody(f.resp)),
                                 !.bank = "", !.attempt = 0, !.net = NetFail,
                                 !.df = NoneDf, !.trace = <<>>, !.resp = NoResp])
    /\ UNCHANGED <<input, parsed, fetched_data, now, calls>>

\* fetch_bank_data returns: to the client, or to the loop of fetch_multiple_banks
Return(t) ==
    /\ th[t].pc = "return"
    /\ LET f == [th[t] EXCEPT
                    !.facts = Extend(th[t].facts, th[t].bank, Cause(th[t].bank, th[t].net))]
       IN  IF f.kind = "fetch"
             THEN Set(t, [f EXCEPT !.pc = "done"])
           \* line 224: result.get_json(); a (response, status) tuple has none
           ELSE IF f.resp.tuple
             THEN Set(t, [f EXCEPT !.pc = "done", !.resp = ServerErrorResp])
           \* back in the loop: the locals of fetch_bank_data are gone
           ELSE Set(t, [f EXCEPT !.pc = "loop", !.idx = f.idx + 1,
                                 !.results = Extend(f.results, f.bank, JsonBody(f.resp)),
                                 !.bank = "", !.attempt = 0, !.net = NetFail,
                                 !.df = NoneDf, !.trace = <<>>, !.resp = NoResp])
    /\ UNCHANGED <<input, parsed, fetched_data, now, calls>>

\* ---------------------------------------------------- fetch_multiple_banks
\* POST /api/fetch-multiple
StartBatch(t, banks) ==
    /\ th[t].pc = "idle"
    /\ calls < MaxCalls
    /\ calls' = calls + 1
    /\ Set(t, [NewFrame("batch", banks) EXCEPT !.pc = "loop"])
    /\ UNCHANGED <<input, parsed, fetched_data, now>>

CountStatus(results, status) == Cardinality({b \in DOMAIN results : results[b].status = status})

\* lines 226-233
BatchResp(banks, results) ==
    [code |-> 200, tuple |-> FALSE, results |-> results,
     summary |-> [requested |-> Len(banks),
                  successful |-> CountStatus(results, "success"),
                  failed |-> CountStatus(results, "error")]]

\* lines 221-223: the loop's next identifier; one not in BANK_CONFIG is passed over
BatchLoop(t) ==
    /\ th[t].pc = "loop"
    /\ LET f == th[t]
       IN  IF f.idx > Len(f.banks)
             THEN Set(t, [f EXCEPT !.pc = "done", !.resp = BatchResp(f.banks, f.results)])
           ELSE IF f.banks[f.idx] \in Registered
             THEN Set(t, Enter(f, f.banks[f.idx]))
           ELSE Set(t, [f EXCEPT !.idx = f.idx + 1])
    /\ UNCHANGED <<input, parsed, fetched_data, now, calls>>

\* ------------------------------------------- get_status, export, clear_data
\* lines 277-297
StatusResp(cache) ==
    [code |-> 200,
     status |-> [b \in Registered |->
                    IF b \in DOMAIN cache
                      THEN [fetched |-> TRUE, timestamp |-> cache[b].timestamp,
                            record_count |-> Len(cache[b].data)]
                    ELSE [fetched |-> FALSE, timestamp |-> 0, record_count |-> 0]],
     total_banks |-> Cardinality(Registered),
     fetched_banks |-> Cardinality(Registered \cap DOMAIN cache)]

GetStatus(t) ==
    /\ th[t].pc = "idle"
    /\ calls < MaxCalls
    /\ calls' = calls + 1
    /\ Set(t, [NewFrame("status", <<>>) EXCEPT !.pc = "done", !.resp = StatusResp(fetched_data)])
    /\ UNCHANGED <<input, parsed, fetched_data, now>>

SheetNameMax == 31

\* line 253: bank_name[:31]
SheetName(bank_name) ==
    IF Len(bank_name) > SheetNameMax THEN SubSeq(bank_name, 1, SheetNameMax) ELSE bank_name

\* lines 238-266: one sheet per cached bank that holds records
ExportResp(cache) ==
    IF DOMAIN cache = {}
      THEN [code |-> 400, status |-> "error", sheets |-> EmptyMap]
    ELSE LET banks == {b \in DOMAIN cache : Len(cache[b].data) > 0}
         IN  [code |-> 200, status |-> "file",
              sheets |-> [n \in {SheetName(b) : b \in banks} |->
                            cache[CHOOSE b \in banks : SheetName(b) = n].data]]

ExportToExcel(t) ==
    /\ th[t].pc = "idle"
    /\ calls < MaxCalls
    /\ calls' = calls + 1
    /\ Set(t, [NewFrame("export", <<>>) EXCEPT !.pc = "done", !.resp = ExportResp(fetched_data)])
    /\ UNCHANGED <<input, parsed, fetched_data, now>>

\* lines 300-304
ClearData(t) ==
    /\ th[t].pc = "idle"
    /\ calls < MaxCalls
    /\ calls' = calls + 1
    /\ fetched_data' = EmptyCache
    /\ Set(t, [NewFrame("clear", <<>>) EXCEPT !.pc = "done", !.resp = [code |-> 200]])
    /\ UNCHANGED <<input, parsed, now>>

\* the response has gone to the client and the thread serves the next request
Release(t) ==
    /\ th[t].pc = "done"
    /\ Set(t, Idle)
    /\ UNCHANGED <<input, parsed, fetched_data, now, calls>>

\* the steps inside fetch_bank_data
ExtractStep(t) ==
    \/ Lookup(t)
    \/ GFetchDirect(t)
    \/ GFetchFallback(t)
    \/ GParse(t)
    \/ GNormalize(t)
    \/ HFetch(t)
    \/ HParse(t)
    \/ HNormalize(t)
    \/ Check(t)
    \/ Return(t)

\* ------------------------------------------------------------------- Spec
\* requests served one at a time, in any order
Init ==
    /\ input = <<>>
    /\ parsed = NotParsed
    /\ fetched_data = EmptyCache
    /\ now = 1
    /\ th = NoThreads
    /\ calls = 0

Next ==
    \/ \E b \in RequestIds : AllIdle /\ StartFetch(1, b)
    \/ \E bs \in Batches : AllIdle /\ StartBatch(1, bs)
    \/ AllIdle /\ GetStatus(1)
    \/ AllIdle /\ ExportToExcel(1)
    \/ AllIdle /\ ClearData(1)
    \/ ExtractStep(1)
    \/ BatchLoop(1)
    \/ Release(1)

Spec == Init /\ [][Next]_vars

\* --------------------------------------------------------------- SpecConc
\* two request threads, each serving fetches of single banks, interleaved
NextConc ==
    \E t \in Threads :
        \/ \E b \in RequestIds : StartFetch(t, b)
        \/ ExtractStep(t)
        \/ Release(t)

SpecConc == Init /\ [][NextConc]_vars

\* ---------------------------------------------------- claims on the parsers
Blank(cell) == Strip(cell.text) = ""

\* a row all of whose cells are th (and that has one), or all td
PureHeaderRow(tr) == Len(tr) > 0 /\ \A i \in 1..Len(tr) : tr[i].tag = "th"
PureDataRow(tr) == \A i \in 1..Len(tr) : tr[i].tag = "td"

\* the header cells of a table, counted on the markup
CountTh(t) == Cardinality({<<r, i>> \in (1..Len(t)) \X (1..MaxCells + 1) :
                              i <= Len(t[r]) /\ t[r][i].tag = "th"})

\* a table with its header in the first row and data rows after it
WellFormed(t) ==
    /\ Len(t) >= 1
    /\ PureHeaderRow(t[1])
    /\ \A r \in 2..Len(t) : Len(t[r]) > 0 /\ PureDataRow(t[r])

\* the structural parser's rows are all as wide as the header, made of the
\* row's own td texts in order and padded with '' (the part of C3 about the
\* matrix; C3 itself is about the records)
HdfcRowsReconciled ==
    parsed.by = "hdfc" =>
        LET H == CountTh(input)
            body == HdfcBodyRows(input)
        IN  H > 0 =>
              /\ Len(parsed.df.rows) = Len(body)
              /\ \A k \in 1..Len(body) :
                    LET cells == HdfcRowCells(body[k])
                        out == parsed.df.rows[k]
                    IN  /\ Len(out) = H
                        /\ \A i \in 1..H :
                              out[i] = IF i <= Len(cells) THEN cells[i] ELSE ""

\* C3: in the structural parser every body row is reconciled to exactly H
\* cells (padded with '' on the right, or cut to its first H cells), so every
\* emitted record has exactly the H header keys.  Stated for tables with the
\* header in the first row and td rows after it.
C3_RecordsHaveHKeys ==
    (parsed.by = "hdfc" /\ WellFormed(input)) =>
        /\ HdfcRowsReconciled
        /\ \A k \in 1..Len(parsed.records) :
              Cardinality(DOMAIN parsed.records[k]) = CountTh(input)

\* C4: for both parsers a table with N data rows of which K are fully empty
\* (every cell blank) yields exactly N-K records, those of the remaining rows
\* in their order.
C4_EmptyRowsExcluded ==
    (parsed.by # "none" /\ WellFormed(input)) =>
        LET keep == {r \in 2..Len(input) :
                        \E i \in 1..Len(input[r]) : ~Blank(input[r][i])}
            kept == SeqFilter([r \in 1..Len(input) |-> r],
                              [r \in 1..Len(input) |-> r = 1 \/ r \in keep])
            without == [k \in 1..Len(kept) |-> input[kept[k]]]
        IN  /\ Len(parsed.records) = Cardinality(keep)
            /\ parsed.records =
                  ToDictRecords(IF parsed.by = "hdfc" THEN HdfcFrame(without)
                                ELSE GenericFrame(without))

\* C9: in the structural parser every row that is not a header row, whatever
\* its position, is a body row giving exactly one output row made of its td
\* cells; no body row is skipped and no header row is emitted as a data row.
C9_BodyRowsAreTheNonHeaderRows ==
    (/\ parsed.by = "hdfc"
     /\ CountTh(input) > 0
     /\ \A r \in 1..Len(input) : PureHeaderRow(input[r]) \/ PureDataRow(input[r])) =>
        LET dataRows == SeqFilter(input, [tr \in Range(input) |-> ~PureHeaderRow(tr)])
        IN  /\ Len(parsed.df.rows) = Len(dataRows)
            /\ \A k \in 1..Len(dataRows) :
                  parsed.df.rows[k] =
                      HdfcReconcile(HdfcRowCells(dataRows[k]), CountTh(input))


\* ------------------------------------------------- claims on the handlers
FetchDone(t) == th[t].pc = "done" /\ th[t].kind = "fetch"
BatchDone(t) == th[t].pc = "done" /\ th[t].kind = "batch"

\* The typed error a caller can read off a response of fetch_bank_data.  The
\* 404 names the unknown bank; every other error carries the one message
\* "No data found or table extraction failed".
ErrorKind(resp) ==
    IF resp.status = "success" THEN "none"
    ELSE IF resp.code = 404 THEN "UnknownSourceError"
    ELSE IF resp.code = 500 THEN "crash"
    ELSE "unspecified"

\* the part of C1 the code keeps: out of range ends in an error answer, not in
\* a crash and not in a success
OutOfRangeEndsInError ==
    \A t \in Threads :
        (FetchDone(t) /\ th[t].facts[th[t].bank] = "out_of_range") =>
            /\ th[t].resp.status = "error"
            /\ th[t].resp.code = 200
            /\ th[t].resp.data = <<>>

\* C1: an extraction whose table_position is equal to or greater than the
\* number of tables of the document ends in a NotFoundError outcome, never in
\* a crash and never in a success with zero records.
C1_OutOfRangeIsNotFoundError ==
    \A t \in Threads :
        (FetchDone(t) /\ th[t].facts[th[t].bank] = "out_of_range") =>
            /\ ErrorKind(th[t].resp) = "NotFoundError"
            /\ th[t].resp.code # 500
            /\ ~(th[t].resp.status = "success" /\ th[t].resp.count = 0)

\* what a caller observes of one source's outcome
Outcome(r) == [status |-> r.status, message |-> r.message, count |-> r.count, data |-> r.data]

\* C2: the outcome observed for an empty but valid table ("no data") is
\* distinguishable from the outcome observed for any error (failed fetch,
\* table position out of range).
C2_NoDataDistinctFromErrors ==
    \A t \in Threads :
        BatchDone(t) =>
            \A b1, b2 \in DOMAIN th[t].resp.results :
                (/\ th[t].facts[b1] = "no_data"
                 /\ th[t].facts[b2] \in {"fetch_failed", "out_of_range"}) =>
                    Outcome(th[t].resp.results[b1]) # Outcome(th[t].resp.results[b2])

\* C5: in a batch, a source whose extraction fails is reported as failed, every
\* other registered source still gets its own successful result, and the batch
\* itself does not fail.
C5_BatchIsolation ==
    \A t \in Threads :
        BatchDone(t) =>
            /\ th[t].resp.code = 200
            /\ \A i \in 1..Len(th[t].banks) :
                  LET b == th[t].banks[i]
                      results == th[t].resp.results
                  IN  b \in Registered =>
                        /\ b \in DOMAIN results
                        /\ results[b].bank = b
                        /\ th[t].facts[b] = "has_data" =>
                              results[b].status = "success" /\ results[b].count >= 1
                        /\ th[t].facts[b] \in {"fetch_failed", "out_of_range"} =>
                              results[b].status = "error"
            /\ th[t].resp.summary.successful + th[t].resp.summary.failed =
                  Cardinality(Range(th[t].banks) \cap Registered)

\* a batch in which one source failed to download and another succeeded
C5_Witness ==
    \E t \in Threads :
        /\ BatchDone(t)
        /\ \E b1, b2 \in DOMAIN th[t].resp.results :
              /\ th[t].facts[b1] = "fetch_failed"
              /\ th[t].resp.results[b1].status = "error"
              /\ th[t].facts[b2] = "has_data"
              /\ th[t].resp.results[b2].status = "success"

\* C6: for every identifier given, alone or in a batch, the output holds one
\* outcome for it; one that is not in the registry yields UnknownSourceError and
\* is never left out.
C6_EveryIdentifierHasOutcome ==
    \A t \in Threads :
        /\ FetchDone(t) =>
              /\ th[t].resp.bank = th[t].bank
              /\ th[t].bank \notin Registered => ErrorKind(th[t].resp) = "UnknownSourceError"
        /\ BatchDone(t) =>
              \A i \in 1..Len(th[t].banks) :
                  /\ th[t].banks[i] \in DOMAIN th[t].resp.results
                  /\ th[t].banks[i] \notin Registered =>
                        ErrorKind(th[t].resp.results[th[t].banks[i]]) = "UnknownSourceError"

\* the part of C6 the code keeps: a single fetch of an unknown identifier is
\* answered 404 without a download
UnknownSingleFetchIs404 ==
    \A t \in Threads :
        (FetchDone(t) /\ th[t].bank \notin Registered) =>
            /\ th[t].resp.code = 404
            /\ th[t].attempt = 0

\* C7: in every interleaving of concurrent extractions, the result recorded
\* for an invocation's source when it returns is the one it returned, as when
\* it runs alone.
C7_RecordedResultIsOwn ==
    [][\A t \in Threads :
          (/\ th[t].pc = "return"
           /\ th'[t].pc = "done"
           /\ th[t].resp.status = "success") =>
              /\ th[t].bank \in DOMAIN fetched_data'
              /\ fetched_data'[th[t].bank].data = th[t].resp.data]_vars

\* ------------------------------------------------------------ C8: stages
IsFetch(e) == e.stage = "FETCH"

NFetches(tr) == Cardinality({i \in 1..Len(tr) : IsFetch(tr[i])})

Terminal(e) == e.stage \in {"DONE", "FAILED"}

\* what may follow entry i of the trace of an extraction of `bank`
StepAllowed(tr, i, bank) ==
    LET a == tr[i]
        b == tr[i + 1]
        first == NFetches(SubSeq(tr, 1, i)) = 1
        fallback == bank \in Registered /\ ~UsesHdfcExtractor(bank)
    IN  IF Terminal(a) THEN FALSE
        ELSE IF a.res # "ok"
          \* the direct attempt is read_html(url): it fails by raising
          THEN IF a.res = "raised" /\ first /\ fallback
                 THEN b.stage = "FETCH"
               ELSE b.stage = "FAILED"
        ELSE CASE a.stage = "LOOKUP" -> b.stage = "FETCH"
               [] a.stage = "FETCH" -> b.stage = "PARSE"
               [] a.stage = "PARSE" -> b.stage = "NORMALIZE"
               [] a.stage = "NORMALIZE" -> b.stage \in {"DONE", "FAILED"}
               [] OTHER -> FALSE

ValidTrace(tr, bank) ==
    /\ Len(tr) > 0 => tr[1].stage = "LOOKUP"
    /\ \A i \in 1..(Len(tr) - 1) : StepAllowed(tr, i, bank)
    /\ NFetches(tr) <= 2
    /\ Cardinality({i \in 1..Len(tr) : Terminal(tr[i])}) <= 1

InExtraction(t) ==
    th[t].pc \in {"lookup", "g_fetch1", "g_fetch2", "g_parse", "g_norm",
                  "h_fetch", "h_parse", "h_norm", "check", "return"}

\* C8: every extraction goes through LOOKUP, FETCH, PARSE, NORMALIZE in this
\* order and ends in exactly one of DONE or FAILED; the only repetition is one
\* fallback FETCH, made after and only after the direct attempt failed (at
\* most two FETCHes); after any other failure no stage runs and the call ends
\* FAILED.
C8_StageOrder ==
    \A t \in Threads :
        /\ (InExtraction(t) \/ FetchDone(t)) => ValidTrace(th[t].trace, th[t].bank)
        /\ (th[t].pc = "return" \/ FetchDone(t)) =>
              /\ Len(th[t].trace) > 0
              /\ Terminal(th[t].trace[Len(th[t].trace)])
              /\ th[t].trace[Len(th[t].trace)].stage = "DONE" <=>
                    th[t].resp.status = "success"

\* a call whose direct attempt and fallback both failed, ended FAILED
C8_Witness ==
    \E t \in Threads :
        /\ FetchDone(t)
        /\ th[t].trace = <<Stage("LOOKUP", "ok"), Stage("FETCH", "raised"),
                           Stage("FETCH", "raised"), Stage("FAILED", "none")>>

\* ------------------------------------------------------------ C10: cache
CacheWellFormed ==
    \A b \in DOMAIN fetched_data :
        /\ b \in Registered
        /\ Len(fetched_data[b].data) >= 1
        /\ fetched_data[b].timestamp < now

\* the step of clear_data
ClearStep ==
    /\ fetched_data' = EmptyCache
    /\ \E t \in Threads : th[t].pc = "idle" /\ th'[t].pc = "done" /\ th'[t].kind = "clear"

\* the step by which a fetch that found records stores them under its own bank
StoreStep ==
    \E t \in Threads :
        /\ th[t].pc = "check"
        /\ th'[t].resp.status = "success"
        /\ th'[t].resp.bank = th[t].bank
        /\ Len(th'[t].resp.data) >= 1
        /\ fetched_data' = Extend(fetched_data, th[t].bank,
                                  [data |-> th'[t].resp.data, timestamp |-> now])

\* C10: a fetch that ends in an error or with no data leaves the cache as it
\* was for every source (status and export keep reporting the old entry); an
\* entry is created or replaced only by a successful fetch of that source with
\* at least one record, and removed only by clear, so every key is a registry
\* identifier with a non-empty record list.
C10_CacheChangesOnlyBySuccessOrClear ==
    [][/\ CacheWellFormed'
       /\ fetched_data' # fetched_data => (ClearStep \/ StoreStep)
       /\ \A t \in Threads :
             (th[t].pc = "check" /\ th'[t].resp.status = "error") =>
                 /\ fetched_data' = fetched_data
                 /\ StatusResp(fetched_data') = StatusResp(fetched_data)
                 /\ ExportResp(fetched_data') = ExportResp(fetched_data)]_vars

\* a fetch of a bank ended in an error while the cache holds its older entry
C10_Witness ==
    \E t \in Threads :
        /\ FetchDone(t)
        /\ th[t].resp.status = "error"
        /\ th[t].bank \in DOMAIN fetched_data
        /\ StatusResp(fetched_data).status[th[t].bank].fetched
        /\ StatusResp(fetched_data).status[th[t].bank].timestamp < now - 1

=============================================================================
